---- MODULE Spec2Model ----
(***************************************************************************)
(* ESP32 DHT11 web server (main/esp32_dht11_iot.c).                        *)
(*                                                                         *)
(* The model follows one HTTP server task that runs get_handler for each   *)
(* GET request: startSignal (host handshake on the single-wire pin),       *)
(* getData (five readData calls, checksum, field assignment), then the     *)
(* console print, the page rendering and the response.  The sensor is the  *)
(* environment: it answers a start signal with a waveform, kept as the     *)
(* list of the times at which the line changes level.  Time is counted in  *)
(* microseconds from the start of the transaction.  A busy-wait loop       *)
(* `while (level == x);` is an await: it ends at the next edge of the      *)
(* line, and cannot end when the line has no further edge.                 *)
(*                                                                         *)
(* The start-up (app_main, wifi_init_sta, event_handler) is a second part: *)
(* the main task, the default event loop that calls event_handler, and the *)
(* WiFi driver that answers each esp_wifi_connect call with events.        *)
(***************************************************************************)
EXTENDS Integers, Sequences, FiniteSets, TLC

VARIABLES
    rstate,       \* per request: "none", "pending", "handling", "responded"
    respCount,    \* per request: number of httpd_resp_send calls made for it
    pc,           \* position of the server task inside get_handler
    now,          \* microseconds since the running transaction started
    dir,          \* direction of DHT11_PIN: "RESET", "OUTPUT", "INPUT"
    out,          \* level last written with gpio_set_level
    hostLog,      \* pin operations of the running transaction, <<op, time>>
    wave,         \* times at which the sensor toggles the line (starts high)
    sbytes,       \* the five bytes the sensor transmits in this transaction
    i,            \* readData: loop counter
    sbuf,         \* readData: byte under construction
    rdEntry,      \* time at which the running readData call was entered
    k,            \* getData: index (1..5) of the byte being read
    buf,          \* getData: uint8_t buf[5]
    currentData,  \* get_handler: struct data currentData
    console,      \* what get_handler printed: "none", "values", "error"
    htmlPage,     \* get_handler: the rendered page
    ret,          \* value returned by the last finished get_handler call
    startCount,   \* per request: startSignal calls made while handling it
    getCount      \* per request: getData calls made while handling it

\* The call counters of the running and of the finished requests.
counts == <<startCount, getCount>>

\* app_main, wifi_init_sta and event_handler: the main task, the default
\* event loop that calls event_handler, and the WiFi driver that answers
\* esp_wifi_connect with events.
VARIABLES
    mainPc,       \* position of the main task in app_main / wifi_init_sta
    s_retry_num,  \* static int s_retry_num
    group,        \* s_wifi_event_group: "none", "live", "deleted"
    bits,         \* bits set in the event group
    waitBits,     \* wifi_init_sta: EventBits_t bits (result of the wait)
    outcome,      \* branch of wifi_init_sta's log: "none", "connected",
                  \* "failed", "unexpected"
    regAny,       \* instance_any_id is registered (WIFI_EVENT, any id)
    regIp,        \* instance_got_ip is registered (IP_EVENT_STA_GOT_IP)
    queue,        \* events posted to the default event loop, oldest first
    link,         \* driver: "off", "idle", "connecting", "associated",
                  \* "connected"
    serverUp,     \* start_webserver has been called
    last,         \* what the event loop did with the last event it took
    reconSince,   \* reconnect attempts made since the last GOT_IP handled
    discSince     \* STA_DISCONNECTED events handled since the last GOT_IP

wifiVars == <<mainPc, s_retry_num, group, bits, waitBits, outcome, regAny,
              regIp, queue, link, serverUp, last, reconSince, discSince>>

vars == <<rstate, respCount, pc, now, dir, out, hostLog, wave, sbytes, i, sbuf,
          rdEntry, k, buf, currentData, console, htmlPage, ret, counts,
          wifiVars>>

----------------------------------------------------------------------------
\* Bounds of the model.

MaxRequests == 2

Requests == 1..MaxRequests

----------------------------------------------------------------------------
\* Program constants.

\* ets_delay_us(19*1000); the variant holds the line low for 1.9 ms only.
LowHoldUsShort == 19 * 100
LowHoldUs == 19 * 1000
ReleaseHoldUs == 30
\* ets_delay_us(30) before the level is sampled; the variant samples after
\* 80 us, when a 70 us pulse is over.
SampleDelayUsLate == 8 * 10
SampleDelayUs == 30
ByteMod == 256
BitsPerByte == 8
BytesPerFrame == 5

\* Sensor timing, as the file's comments give it.
MinStartLowUs == 18000
MinLatencyUs == 20
MaxLatencyUs == 40
AckPhaseUs == 80
BitLowUs == 50
ZeroHighUs == 26
OneHighUs == 70

----------------------------------------------------------------------------
\* The sensor's waveform.

Pow2(n) == IF n = 0 THEN 1 ELSE IF n = 1 THEN 2 ELSE IF n = 2 THEN 4
           ELSE IF n = 3 THEN 8 ELSE IF n = 4 THEN 16 ELSE IF n = 5 THEN 32
           ELSE IF n = 6 THEN 64 ELSE 128

\* Bit n (1..40) of the frame, most-significant bit of each byte first.
FrameBit(bytes, n) ==
    (bytes[((n - 1) \div BitsPerByte) + 1]
        \div Pow2((BitsPerByte - 1) - ((n - 1) % BitsPerByte))) % 2

HighUs(bit) == IF bit = 1 THEN OneHighUs ELSE ZeroHighUs

RECURSIVE BitEdges(_, _, _)
\* Edges of bits n..40 when bit n's low pulse starts at time t, followed by the
\* closing low pulse after which the sensor releases the line.
BitEdges(bytes, n, t) ==
    IF n > BitsPerByte * BytesPerFrame
    THEN <<t, t + BitLowUs>>
    ELSE <<t, t + BitLowUs>> \o
         BitEdges(bytes, n + 1, t + BitLowUs + HighUs(FrameBit(bytes, n)))

\* The full answer to a start signal released at time t0: acknowledgment low,
\* acknowledgment high, forty bits, closing low.
FullWave(t0, lat, bytes) ==
    <<t0 + lat, t0 + lat + AckPhaseUs>> \o
    BitEdges(bytes, 1, t0 + lat + 2 * AckPhaseUs)

\* Index in the waveform of the rising edge of bit n (1..40), and of the
\* falling edge that ends its high pulse.
RiseEdgeOfBit(n) == 2 + 2 * n
FallEdgeOfBit(n) == 3 + 2 * n
\* Index of the falling edge that starts the low pulse of byte j's first bit.
ByteStartEdge(j) == 3 + 2 * BitsPerByte * (j - 1)

\* What the sensor may do in one transaction.
\*   "frame":   answers after lat microseconds and sends bytes
\*   "stall":   as "frame", but edge number stallAt and all later ones never come
\*   "high":    never answers, the pulled-up line stays high
\*   "low":     never answers, the line is held low
WaveOf(b, t0) ==
    CASE b.kind = "frame" -> FullWave(t0, b.lat, b.bytes)
      [] b.kind = "stall" -> SubSeq(FullWave(t0, b.lat, b.bytes), 1, b.stallAt - 1)
      [] b.kind = "high"  -> <<>>
      [] b.kind = "low"   -> <<t0>>

EdgesUpTo(t) == Cardinality({n \in 1..Len(wave) : wave[n] <= t})

\* gpio_get_level(DHT11_PIN) at time t, the pin being an input.
Level(t) == IF EdgesUpTo(t) % 2 = 0 THEN 1 ELSE 0

HasEdgeAfter(t) == EdgesUpTo(t) < Len(wave)

\* The edges are in increasing order of time, so the next one after t is the
\* first not yet counted.
NextEdge(t) == wave[EdgesUpTo(t) + 1]

\* `while (gpio_get_level(DHT11_PIN) == x);` entered at time `now`.
CanLeaveWait(x) == Level(now) # x \/ HasEdgeAfter(now)
LeaveWaitAt(x) == IF Level(now) # x THEN now ELSE NextEdge(now)

----------------------------------------------------------------------------
\* Inputs.

Payloads ==
    { <<50, 0, 21, 0, 71>>,        \* 0x32 0x00 0x15 0x00 0x47
      <<50, 0, 21, 0, 72>>,        \* 0x32 0x00 0x15 0x00 0x48
      <<50, 3, 21, 7, 81>>,
      <<50, 3, 21, 7, 71>>,
      <<200, 0, 100, 0, 44>>,      \* data bytes sum to 300
      <<128, 0, 128, 0, 0>>,       \* data bytes sum to 256
      <<255, 255, 255, 255, 252>>,
      <<0, 0, 0, 0, 0>> }

Latencies == {MinLatencyUs, ReleaseHoldUs, ReleaseHoldUs + 1, MaxLatencyUs}

StallBits == {1, 8, 9, 40}

Behaviours ==
    { [kind |-> "frame", lat |-> l, bytes |-> p, stallAt |-> 0] :
        l \in Latencies, p \in Payloads }
    \cup
    { [kind |-> "stall", lat |-> MinLatencyUs, bytes |-> <<50, 0, 21, 0, 71>>,
       stallAt |-> e] :
        e \in {RiseEdgeOfBit(n) : n \in StallBits}
              \cup {FallEdgeOfBit(n) : n \in StallBits} }
    \cup
    { [kind |-> kd, lat |-> 0, bytes |-> <<0, 0, 0, 0, 0>>, stallAt |-> 0] :
        kd \in {"high", "low"} }

\* Every value of every field: byte j of payload v runs over 0..255 with v.
SweepBehaviours ==
    { [kind |-> "frame", lat |-> MinLatencyUs,
       bytes |-> <<v, (7 * v + 3) % ByteMod, (ByteMod - 1) - v,
                   (v + 128) % ByteMod, (3 * v) % ByteMod>>,
       stallAt |-> 0] : v \in 0..(ByteMod - 1) }

\* What an uninitialised struct data may hold: for one, the reading an
\* earlier call left in the same stack slot; for another, arbitrary bits.
Garbage ==
    { [temperature |-> 21, humidity |-> 50, status |-> 1],
      [temperature |-> -1, humidity |-> 77, status |-> 7] }

NoData == [temperature |-> 0, humidity |-> 0, status |-> 0]
NoPage == [temperature |-> 0, humidity |-> 0, errorText |-> FALSE, filled |-> FALSE]
ZeroBuf == <<0, 0, 0, 0, 0>>

----------------------------------------------------------------------------
\* Pure parts of the code.

\* sbuf <<= 1 on a uint8_t.
ShiftLeft(x) == (2 * x) % ByteMod

\* sbuf |= bit, bit being 0 or 1.
OrBit(x, bit) == IF bit = 1 /\ x % 2 = 0 THEN x + 1 ELSE x

\* buf[4] == buf[0]+buf[1]+buf[2]+buf[3]: the operands are promoted to int, so
\* the sum is not reduced modulo 256.
\* The variant leaves the two fractional bytes out of the sum.
ChecksumMatchesIntegersOnly(b) == b[5] = b[1] + b[3]
ChecksumMatches(b) == b[5] = b[1] + b[2] + b[3] + b[4]

\* The page of line 239: the two %d arguments; its text has no error message.
Render(t, h) == [temperature |-> t, humidity |-> h, errorText |-> FALSE, filled |-> TRUE]

----------------------------------------------------------------------------
TypeOK ==
    /\ rstate \in [Requests -> {"none", "pending", "handling", "responded"}]
    /\ respCount \in [Requests -> 0..1]
    /\ now \in Nat
    /\ dir \in {"RESET", "OUTPUT", "INPUT"}
    /\ out \in {0, 1}
    /\ i \in 0..BitsPerByte
    /\ sbuf \in 0..(ByteMod - 1)
    /\ k \in 1..(BytesPerFrame + 1)
    /\ \A j \in 1..BytesPerFrame : buf[j] \in 0..(ByteMod - 1)
    /\ console \in {"none", "values", "error"}
    /\ ret \in {"none", "ESP_OK"}
    /\ startCount \in [Requests -> 0..1]
    /\ getCount \in [Requests -> 0..1]

\* No event has been taken from the event loop yet.
NoRun == [event |-> "none", handled |-> FALSE, at |-> "none", group |-> "none",
          retryBefore |-> 0, connects |-> 0, set |-> {}]

\* Entry of app_main: nothing is created, the static counter is 0 (line 50).
BootState ==
    /\ mainPc = "create_group"
    /\ s_retry_num = 0
    /\ group = "none"
    /\ bits = {}
    /\ waitBits = {}
    /\ outcome = "none"
    /\ regAny = FALSE
    /\ regIp = FALSE
    /\ queue = <<>>
    /\ link = "off"
    /\ serverUp = FALSE
    /\ last = NoRun
    /\ reconSince = 0
    /\ discSince = 0

\* app_main has returned after a first connection attempt that succeeded:
\* the station has its address, the handlers are unregistered, the event
\* group is deleted and the web server is started.
ServingState ==
    /\ mainPc = "done"
    /\ s_retry_num = 0
    /\ group = "deleted"
    /\ bits = {"CONNECTED"}
    /\ waitBits = {"CONNECTED"}
    /\ outcome = "connected"
    /\ regAny = FALSE
    /\ regIp = FALSE
    /\ queue = <<>>
    /\ link = "connected"
    /\ serverUp = TRUE
    /\ last = [event |-> "GOT_IP", handled |-> TRUE, at |-> "wait",
               group |-> "live", retryBefore |-> 0, connects |-> 0,
               set |-> {"CONNECTED"}]
    /\ reconSince = 0
    /\ discSince = 0

\* The server task is idle and no request has arrived.
HttpIdle ==
    /\ rstate = [r \in Requests |-> "none"]
    /\ respCount = [r \in Requests |-> 0]
    /\ pc = "idle"
    /\ now = 0
    /\ dir = "RESET"
    /\ out = 0
    /\ hostLog = <<>>
    /\ wave = <<>>
    /\ sbytes = ZeroBuf
    /\ i = 0
    /\ sbuf = 0
    /\ rdEntry = 0
    /\ k = 1
    /\ buf = ZeroBuf
    /\ currentData = NoData
    /\ console = "none"
    /\ htmlPage = NoPage
    /\ ret = "none"
    /\ startCount = [r \in Requests |-> 0]
    /\ getCount = [r \in Requests |-> 0]

\* The web server at work: app_main has run, no request has arrived.
Init == HttpIdle /\ ServingState

----------------------------------------------------------------------------
\* The HTTP server.

\* A GET / arrives (requests are numbered in the order they arrive).
Arrive(r) ==
    /\ rstate[r] = "none"
    /\ \A q \in Requests : q < r => rstate[q] # "none"
    /\ rstate' = [rstate EXCEPT ![r] = "pending"]
    /\ UNCHANGED <<counts, wifiVars>>
    /\ UNCHANGED <<respCount, pc, now, dir, out, hostLog, wave, sbytes, i, sbuf,
                   rdEntry, k, buf, currentData, console, htmlPage, ret>>

\* Variant: a handler is started for a request while another one runs.
ServerBusyNever == FALSE
\* httpd_start creates one server task; it calls a URI handler and takes the
\* next request only once the handler has returned.
ServerBusy == \E q \in Requests : rstate[q] = "handling"

\* The server task calls get_handler(req) for a pending request
\* (gpio_pad_select_gpio changes nothing that is modelled).
Dispatch(r) ==
    /\ serverUp
    /\ rstate[r] = "pending"
    /\ ~ServerBusy
    /\ rstate' = [rstate EXCEPT ![r] = "handling"]
    /\ pc' = "ss_dir_out"
    /\ now' = 0
    /\ hostLog' = <<>>
    /\ wave' = <<>>
    /\ sbytes' = ZeroBuf
    /\ i' = 0
    /\ sbuf' = 0
    /\ rdEntry' = 0
    /\ k' = 1
    /\ buf' = ZeroBuf
    /\ currentData' = NoData
    /\ console' = "none"
    /\ htmlPage' = NoPage
    /\ ret' = "none"
    /\ UNCHANGED <<counts, wifiVars>>
    /\ UNCHANGED <<respCount, dir, out>>

----------------------------------------------------------------------------
\* startSignal.

Log(op) == Append(hostLog, <<op, now>>)

\* gpio_set_direction(DHT11_PIN, GPIO_MODE_OUTPUT)
SS_DirOut ==
    /\ pc = "ss_dir_out"
    /\ dir' = "OUTPUT"
    /\ hostLog' = Log("dir_out")
    /\ pc' = "ss_low"
    /\ startCount' = [r \in Requests |->
                        IF rstate[r] = "handling" THEN startCount[r] + 1
                        ELSE startCount[r]]
    /\ UNCHANGED <<getCount, wifiVars>>
    /\ UNCHANGED <<rstate, respCount, now, out, wave, sbytes, i, sbuf, rdEntry,
                   k, buf, currentData, console, htmlPage, ret>>

\* gpio_set_level(DHT11_PIN, 0); ets_delay_us(19*1000)
SS_Low ==
    /\ pc = "ss_low"
    /\ out' = 0
    /\ hostLog' = Log("set_0")
    /\ now' = now + LowHoldUs
    /\ pc' = "ss_high"
    /\ UNCHANGED <<counts, wifiVars>>
    /\ UNCHANGED <<rstate, respCount, dir, wave, sbytes, i, sbuf, rdEntry, k,
                   buf, currentData, console, htmlPage, ret>>

\* gpio_set_level(DHT11_PIN, 1); ets_delay_us(30).  The sensor sees the line
\* released at `now` and picks what it does from the set B.
SS_High(B) ==
    /\ pc = "ss_high"
    /\ out' = 1
    /\ hostLog' = Log("set_1")
    /\ \E b \in B :
        /\ wave' = WaveOf(b, now)
        /\ sbytes' = b.bytes
    /\ now' = now + ReleaseHoldUs
    /\ pc' = "ss_dir_in"
    /\ UNCHANGED <<counts, wifiVars>>
    /\ UNCHANGED <<rstate, respCount, dir, i, sbuf, rdEntry, k, buf,
                   currentData, console, htmlPage, ret>>

\* The mode startSignal leaves the pin in: GPIO_MODE_INPUT.  The variant
\* leaves it an output.
ReleasedDirOutput == "OUTPUT"
ReleasedDir == "INPUT"

\* gpio_set_direction(DHT11_PIN, GPIO_MODE_INPUT)
SS_DirIn ==
    /\ pc = "ss_dir_in"
    /\ dir' = ReleasedDir
    /\ hostLog' = Log("dir_in")
    /\ pc' = "ss_wait_low"
    /\ UNCHANGED <<counts, wifiVars>>
    /\ UNCHANGED <<rstate, respCount, now, out, wave, sbytes, i, sbuf, rdEntry,
                   k, buf, currentData, console, htmlPage, ret>>

\* while(!gpio_get_level(DHT11_PIN));
SS_WaitLow ==
    /\ pc = "ss_wait_low"
    /\ CanLeaveWait(0)
    /\ now' = LeaveWaitAt(0)
    /\ pc' = "ss_wait_high"
    /\ UNCHANGED <<counts, wifiVars>>
    /\ UNCHANGED <<rstate, respCount, dir, out, hostLog, wave, sbytes, i, sbuf,
                   rdEntry, k, buf, currentData, console, htmlPage, ret>>

\* while(gpio_get_level(DHT11_PIN)); then startSignal returns
SS_WaitHigh ==
    /\ pc = "ss_wait_high"
    /\ CanLeaveWait(1)
    /\ now' = LeaveWaitAt(1)
    /\ pc' = "gh_decl"
    /\ UNCHANGED <<counts, wifiVars>>
    /\ UNCHANGED <<rstate, respCount, dir, out, hostLog, wave, sbytes, i, sbuf,
                   rdEntry, k, buf, currentData, console, htmlPage, ret>>

----------------------------------------------------------------------------
\* get_handler, getData and readData.

\* struct data currentData; (not initialised)
GH_Decl ==
    /\ pc = "gh_decl"
    /\ currentData' \in Garbage
    /\ pc' = "gd_init"
    /\ UNCHANGED <<counts, wifiVars>>
    /\ UNCHANGED <<rstate, respCount, now, dir, out, hostLog, wave, sbytes, i,
                   sbuf, rdEntry, k, buf, console, htmlPage, ret>>

\* getData: uint8_t buf[5]={0};
GD_Init ==
    /\ pc = "gd_init"
    /\ buf' = ZeroBuf
    /\ k' = 1
    /\ pc' = "rd_enter"
    /\ getCount' = [r \in Requests |->
                      IF rstate[r] = "handling" THEN getCount[r] + 1
                      ELSE getCount[r]]
    /\ UNCHANGED <<startCount, wifiVars>>
    /\ UNCHANGED <<rstate, respCount, now, dir, out, hostLog, wave, sbytes, i,
                   sbuf, rdEntry, currentData, console, htmlPage, ret>>

\* readData: uint8_t i,sbuf=0; for(i=0; ...
RD_Enter ==
    /\ pc = "rd_enter"
    /\ i' = 0
    /\ sbuf' = 0
    /\ rdEntry' = now
    /\ pc' = "rd_loop"
    /\ UNCHANGED <<counts, wifiVars>>
    /\ UNCHANGED <<rstate, respCount, now, dir, out, hostLog, wave, sbytes, k,
                   buf, currentData, console, htmlPage, ret>>

\* for(...; i<8; ...) { sbuf<<=1;
RD_Loop ==
    /\ pc = "rd_loop"
    /\ IF i < BitsPerByte
       THEN /\ sbuf' = ShiftLeft(sbuf)
            /\ pc' = "rd_wait_rise"
       ELSE /\ sbuf' = sbuf
            /\ pc' = "rd_return"
    /\ UNCHANGED <<counts, wifiVars>>
    /\ UNCHANGED <<rstate, respCount, now, dir, out, hostLog, wave, sbytes, i,
                   rdEntry, k, buf, currentData, console, htmlPage, ret>>

\* while(!gpio_get_level(DHT11_PIN));
RD_WaitRise ==
    /\ pc = "rd_wait_rise"
    /\ CanLeaveWait(0)
    /\ now' = LeaveWaitAt(0)
    /\ pc' = "rd_sample"
    /\ UNCHANGED <<counts, wifiVars>>
    /\ UNCHANGED <<rstate, respCount, dir, out, hostLog, wave, sbytes, i, sbuf,
                   rdEntry, k, buf, currentData, console, htmlPage, ret>>

\* ets_delay_us(30); if(gpio_get_level(DHT11_PIN)) sbuf|=1; else sbuf|=0;
RD_Sample ==
    /\ pc = "rd_sample"
    /\ now' = now + SampleDelayUs
    /\ sbuf' = OrBit(sbuf, Level(now + SampleDelayUs))
    /\ pc' = "rd_wait_fall"
    /\ UNCHANGED <<counts, wifiVars>>
    /\ UNCHANGED <<rstate, respCount, dir, out, hostLog, wave, sbytes, i,
                   rdEntry, k, buf, currentData, console, htmlPage, ret>>

\* while(gpio_get_level(DHT11_PIN)); } i++
RD_WaitFall ==
    /\ pc = "rd_wait_fall"
    /\ CanLeaveWait(1)
    /\ now' = LeaveWaitAt(1)
    /\ i' = i + 1
    /\ pc' = "rd_loop"
    /\ UNCHANGED <<counts, wifiVars>>
    /\ UNCHANGED <<rstate, respCount, dir, out, hostLog, wave, sbytes, sbuf,
                   rdEntry, k, buf, currentData, console, htmlPage, ret>>

\* return sbuf; and in getData: buf[k]=readData();
RD_Return ==
    /\ pc = "rd_return"
    /\ buf' = [buf EXCEPT ![k] = sbuf]
    /\ k' = k + 1
    /\ pc' = IF k < BytesPerFrame THEN "rd_enter" ELSE "gd_check"
    /\ UNCHANGED <<counts, wifiVars>>
    /\ UNCHANGED <<rstate, respCount, now, dir, out, hostLog, wave, sbytes, i,
                   sbuf, rdEntry, currentData, console, htmlPage, ret>>

\* The status getData stores: both branches assign it, whatever it held.  The
\* variant assigns it on a mismatch only.
StatusAfterCheckSticky(old, b) == IF ChecksumMatches(b) THEN old ELSE 1
StatusAfterCheck(old, b) == IF ChecksumMatches(b) THEN 0 ELSE 1

\* if(buf[4] == buf[0]+buf[1]+buf[2]+buf[3]) temp->status=0; else temp->status=1;
GD_Check ==
    /\ pc = "gd_check"
    /\ currentData' = [currentData EXCEPT
                         !.status = StatusAfterCheck(currentData.status, buf)]
    /\ pc' = "gd_assign"
    /\ UNCHANGED <<counts, wifiVars>>
    /\ UNCHANGED <<rstate, respCount, now, dir, out, hostLog, wave, sbytes, i,
                   sbuf, rdEntry, k, buf, console, htmlPage, ret>>

\* The fields getData copies out of buf.
TemperatureOf(b) == b[3]
HumidityOf(b) == b[1]

\* temp->temperature = buf[2]; temp->humidity = buf[0];
GD_Assign ==
    /\ pc = "gd_assign"
    /\ currentData' = [currentData EXCEPT !.temperature = TemperatureOf(buf),
                                          !.humidity = HumidityOf(buf)]
    /\ pc' = "gh_print"
    /\ UNCHANGED <<counts, wifiVars>>
    /\ UNCHANGED <<rstate, respCount, now, dir, out, hostLog, wave, sbytes, i,
                   sbuf, rdEntry, k, buf, console, htmlPage, ret>>

\* Where get_handler goes on after the print: to the rendering of the page,
\* whatever the status.  The variant returns early on an error status.
\* A second variant starts the transaction again on an error status.
AfterPrintSkipOnError(status) == IF status = 0 THEN "gh_render" ELSE "gh_return"
AfterPrintRetryOnError(status) == IF status = 0 THEN "gh_render" ELSE "ss_dir_out"
AfterPrint(status) == "gh_render"

\* if(currentData.status==0) printf("Temp=%d, Humi=%d") else printf("DHT11 Error!")
GH_Print ==
    /\ pc = "gh_print"
    /\ console' = IF currentData.status = 0 THEN "values" ELSE "error"
    /\ pc' = AfterPrint(currentData.status)
    /\ UNCHANGED <<counts, wifiVars>>
    /\ UNCHANGED <<rstate, respCount, now, dir, out, hostLog, wave, sbytes, i,
                   sbuf, rdEntry, k, buf, currentData, htmlPage, ret>>

\* char htmlPage[BUFFERSIZE]={0}; sprintf(htmlPage, ..., temperature, humidity)
GH_Render ==
    /\ pc = "gh_render"
    /\ htmlPage' = Render(currentData.temperature, currentData.humidity)
    /\ pc' = "gh_send"
    /\ UNCHANGED <<counts, wifiVars>>
    /\ UNCHANGED <<rstate, respCount, now, dir, out, hostLog, wave, sbytes, i,
                   sbuf, rdEntry, k, buf, currentData, console, ret>>

\* httpd_resp_send(req, htmlPage, HTTPD_RESP_USE_STRLEN)
GH_Send ==
    /\ pc = "gh_send"
    /\ \E r \in Requests :
        /\ rstate[r] = "handling"
        /\ respCount' = [respCount EXCEPT ![r] = @ + 1]
    /\ pc' = "gh_return"
    /\ UNCHANGED <<counts, wifiVars>>
    /\ UNCHANGED <<rstate, now, dir, out, hostLog, wave, sbytes, i, sbuf,
                   rdEntry, k, buf, currentData, console, htmlPage, ret>>

\* return ESP_OK;
GH_Return ==
    /\ pc = "gh_return"
    /\ ret' = "ESP_OK"
    /\ rstate' = [r \in Requests |->
                    IF rstate[r] = "handling" THEN "responded" ELSE rstate[r]]
    /\ pc' = "idle"
    /\ UNCHANGED <<counts, wifiVars>>
    /\ UNCHANGED <<respCount, now, dir, out, hostLog, wave, sbytes, i, sbuf,
                   rdEntry, k, buf, currentData, console, htmlPage>>

----------------------------------------------------------------------------
\* One step of the server task inside get_handler, the sensor choosing from B.
HandlerStep(B) ==
    \/ SS_DirOut
    \/ SS_Low
    \/ SS_High(B)
    \/ SS_DirIn
    \/ SS_WaitLow
    \/ SS_WaitHigh
    \/ GH_Decl
    \/ GD_Init
    \/ RD_Enter
    \/ RD_Loop
    \/ RD_WaitRise
    \/ RD_Sample
    \/ RD_WaitFall
    \/ RD_Return
    \/ GD_Check
    \/ GD_Assign
    \/ GH_Print
    \/ GH_Render
    \/ GH_Send
    \/ GH_Return

NextWith(B) ==
    \/ \E r \in Requests : Arrive(r)
    \/ \E r \in Requests : Dispatch(r)
    \/ HandlerStep(B)

Next == NextWith(Behaviours)

Spec == Init /\ [][Next]_vars

\* The same program, the sensor sending every value of every field.
SweepNext == NextWith(SweepBehaviours)

SweepSpec == Init /\ [][SweepNext]_vars

----------------------------------------------------------------------------
\* WiFi start-up: app_main, wifi_init_sta, event_handler.

EXAMPLE_ESP_MAXIMUM_RETRY == 20

WIFI_CONNECTED_BIT == "CONNECTED"
WIFI_FAIL_BIT == "FAIL"

Events == {"STA_START", "STA_CONNECTED", "STA_DISCONNECTED", "GOT_IP"}

\* Everything the HTTP part of the model holds.
httpVars == <<rstate, respCount, pc, now, dir, out, hostLog, wave, sbytes, i,
              sbuf, rdEntry, k, buf, currentData, console, htmlPage, ret,
              counts>>

\* Variant: the test admits one retry more.
MayRetryInclusive(n) == n <= EXAMPLE_ESP_MAXIMUM_RETRY
\* if (s_retry_num < EXAMPLE_ESP_MAXIMUM_RETRY)
MayRetry(n) == n < EXAMPLE_ESP_MAXIMUM_RETRY

\* Number of esp_wifi_connect calls event_handler makes for event ev.
ConnectCalls(ev, n) ==
    IF ev = "STA_START" THEN 1
    ELSE IF ev = "STA_DISCONNECTED" /\ MayRetry(n) THEN 1
    ELSE 0

\* s_retry_num after event_handler has run for event ev.
RetryAfter(ev, n) ==
    IF ev = "STA_DISCONNECTED" /\ MayRetry(n) THEN n + 1
    ELSE IF ev = "GOT_IP" THEN 0
    ELSE n

\* The bits event_handler passes to xEventGroupSetBits for event ev.
BitsSet(ev, n) ==
    IF ev = "STA_DISCONNECTED" /\ ~MayRetry(n) THEN {WIFI_FAIL_BIT}
    ELSE IF ev = "GOT_IP" THEN {WIFI_CONNECTED_BIT}
    ELSE {}

\* The handler instance an event is dispatched to is registered.
Registered(ev) == IF ev = "GOT_IP" THEN regIp ELSE regAny

\* Variant: the wait is for both bits (xWaitForAllBits = pdTRUE).
WaitSatisfiedAll(b) == {WIFI_CONNECTED_BIT, WIFI_FAIL_BIT} \subseteq b
\* xEventGroupWaitBits(group, CONNECTED | FAIL, pdFALSE, pdFALSE, portMAX_DELAY)
\* returns once one of the two bits is set.
WaitSatisfied(b) == b \cap {WIFI_CONNECTED_BIT, WIFI_FAIL_BIT} # {}

\* Variant: the WIFI_EVENT instance is left registered.
AnyRegisteredAfterUnregisterStays == TRUE
\* esp_event_handler_instance_unregister(WIFI_EVENT, ESP_EVENT_ANY_ID, ...)
AnyRegisteredAfterUnregister == FALSE

\* The default event loop takes the oldest event and calls event_handler if
\* the instance for it is registered; otherwise the event is dropped.  The
\* loop runs a handler to its end before unregistering can take effect, so
\* the call is one step.
Deliver ==
    /\ queue # <<>>
    /\ LET ev == Head(queue)
           run == Registered(ev)
           connects == IF run THEN ConnectCalls(ev, s_retry_num) ELSE 0
           set == IF run THEN BitsSet(ev, s_retry_num) ELSE {}
       IN  /\ queue' = Tail(queue)
           /\ s_retry_num' = IF run THEN RetryAfter(ev, s_retry_num)
                             ELSE s_retry_num
           /\ bits' = IF group = "live" THEN bits \cup set ELSE bits
           /\ link' = IF connects = 1 /\ link = "idle" THEN "connecting"
                      ELSE link
           /\ last' = [event |-> ev, handled |-> run, at |-> mainPc,
                       group |-> group, retryBefore |-> s_retry_num,
                       connects |-> connects, set |-> set]
           /\ reconSince' = IF run /\ ev = "GOT_IP" THEN 0
                            ELSE IF run /\ ev = "STA_DISCONNECTED"
                                 THEN reconSince + connects
                            ELSE reconSince
           /\ discSince' = IF run /\ ev = "GOT_IP" THEN 0
                           ELSE IF run /\ ev = "STA_DISCONNECTED"
                                THEN discSince + 1
                           ELSE discSince
    /\ UNCHANGED <<mainPc, group, waitBits, outcome, regAny, regIp, serverUp>>
    /\ UNCHANGED httpVars

\* The main task's frame: what a step of wifi_init_sta leaves alone.
MainKeeps == UNCHANGED <<s_retry_num, last, reconSince, discSince, httpVars>>

\* s_wifi_event_group = xEventGroupCreate(); netif, event loop, wifi init
M_CreateGroup ==
    /\ mainPc = "create_group"
    /\ group' = "live"
    /\ bits' = {}
    /\ mainPc' = "register_any"
    /\ MainKeeps
    /\ UNCHANGED <<waitBits, outcome, regAny, regIp, queue, link, serverUp>>

\* esp_event_handler_instance_register(WIFI_EVENT, ESP_EVENT_ANY_ID, ...)
M_RegisterAny ==
    /\ mainPc = "register_any"
    /\ regAny' = TRUE
    /\ mainPc' = "register_ip"
    /\ MainKeeps
    /\ UNCHANGED <<group, bits, waitBits, outcome, regIp, queue, link, serverUp>>

\* esp_event_handler_instance_register(IP_EVENT, IP_EVENT_STA_GOT_IP, ...)
M_RegisterIp ==
    /\ mainPc = "register_ip"
    /\ regIp' = TRUE
    /\ mainPc' = "wifi_start"
    /\ MainKeeps
    /\ UNCHANGED <<group, bits, waitBits, outcome, regAny, queue, link, serverUp>>

\* esp_wifi_start(): the driver posts WIFI_EVENT_STA_START
M_WifiStart ==
    /\ mainPc = "wifi_start"
    /\ link' = "idle"
    /\ queue' = Append(queue, "STA_START")
    /\ mainPc' = "wait"
    /\ MainKeeps
    /\ UNCHANGED <<group, bits, waitBits, outcome, regAny, regIp, serverUp>>

\* bits = xEventGroupWaitBits(...)
M_Wait ==
    /\ mainPc = "wait"
    /\ WaitSatisfied(bits)
    /\ waitBits' = bits
    /\ mainPc' = "log"
    /\ MainKeeps
    /\ UNCHANGED <<group, bits, outcome, regAny, regIp, queue, link, serverUp>>

\* if (bits & WIFI_CONNECTED_BIT) ... else if (bits & WIFI_FAIL_BIT) ... else
M_Log ==
    /\ mainPc = "log"
    /\ outcome' = IF WIFI_CONNECTED_BIT \in waitBits THEN "connected"
                  ELSE IF WIFI_FAIL_BIT \in waitBits THEN "failed"
                  ELSE "unexpected"
    /\ mainPc' = "unreg_ip"
    /\ MainKeeps
    /\ UNCHANGED <<group, bits, waitBits, regAny, regIp, queue, link, serverUp>>

\* esp_event_handler_instance_unregister(IP_EVENT, IP_EVENT_STA_GOT_IP, ...)
M_UnregIp ==
    /\ mainPc = "unreg_ip"
    /\ regIp' = FALSE
    /\ mainPc' = "unreg_any"
    /\ MainKeeps
    /\ UNCHANGED <<group, bits, waitBits, outcome, regAny, queue, link, serverUp>>

M_UnregAny ==
    /\ mainPc = "unreg_any"
    /\ regAny' = AnyRegisteredAfterUnregister
    /\ mainPc' = "delete_group"
    /\ MainKeeps
    /\ UNCHANGED <<group, bits, waitBits, outcome, regIp, queue, link, serverUp>>

\* vEventGroupDelete(s_wifi_event_group); wifi_init_sta returns
M_DeleteGroup ==
    /\ mainPc = "delete_group"
    /\ group' = "deleted"
    /\ mainPc' = "start_webserver"
    /\ MainKeeps
    /\ UNCHANGED <<bits, waitBits, outcome, regAny, regIp, queue, link, serverUp>>

\* start_webserver(); app_main returns
M_StartWebserver ==
    /\ mainPc = "start_webserver"
    /\ serverUp' = TRUE
    /\ mainPc' = "done"
    /\ MainKeeps
    /\ UNCHANGED <<group, bits, waitBits, outcome, regAny, regIp, queue, link>>

\* The driver's frame.
DriverKeeps == UNCHANGED <<mainPc, s_retry_num, group, bits, waitBits, outcome,
                           regAny, regIp, serverUp, last, reconSince,
                           discSince, httpVars>>

\* A connection attempt fails: WIFI_EVENT_STA_DISCONNECTED.
D_AttemptFails ==
    /\ link = "connecting"
    /\ link' = "idle"
    /\ queue' = Append(queue, "STA_DISCONNECTED")
    /\ DriverKeeps

\* The station associates with the access point: WIFI_EVENT_STA_CONNECTED.
D_Associates ==
    /\ link = "connecting"
    /\ link' = "associated"
    /\ queue' = Append(queue, "STA_CONNECTED")
    /\ DriverKeeps

\* The station gets its address: IP_EVENT_STA_GOT_IP.
D_GotIp ==
    /\ link = "associated"
    /\ link' = "connected"
    /\ queue' = Append(queue, "GOT_IP")
    /\ DriverKeeps

\* The association is lost before an address was obtained.
D_NoAddress ==
    /\ link = "associated"
    /\ link' = "idle"
    /\ queue' = Append(queue, "STA_DISCONNECTED")
    /\ DriverKeeps

\* An established connection is lost.
D_LinkLost ==
    /\ link = "connected"
    /\ link' = "idle"
    /\ queue' = Append(queue, "STA_DISCONNECTED")
    /\ DriverKeeps

MainStep ==
    \/ M_CreateGroup
    \/ M_RegisterAny
    \/ M_RegisterIp
    \/ M_WifiStart
    \/ M_Wait
    \/ M_Log
    \/ M_UnregIp
    \/ M_UnregAny
    \/ M_DeleteGroup
    \/ M_StartWebserver

\* An attempt started by esp_wifi_connect comes to its result.
AttemptStep ==
    \/ D_AttemptFails
    \/ D_Associates
    \/ D_GotIp
    \/ D_NoAddress

WifiNext ==
    \/ M_CreateGroup
    \/ M_RegisterAny
    \/ M_RegisterIp
    \/ M_WifiStart
    \/ M_Wait
    \/ M_Log
    \/ M_UnregIp
    \/ M_UnregAny
    \/ M_DeleteGroup
    \/ M_StartWebserver
    \/ Deliver
    \/ D_AttemptFails
    \/ D_Associates
    \/ D_GotIp
    \/ D_NoAddress
    \/ D_LinkLost

\* The start-up from the entry of app_main.
WifiInit == HttpIdle /\ BootState

WifiSpec == WifiInit /\ [][WifiNext]_vars

\* The main task and the event loop task are scheduled, and every connection
\* attempt comes to a result; a connection, once made, need never be lost.
WifiFairSpec ==
    /\ WifiInit
    /\ [][WifiNext]_vars
    /\ WF_vars(MainStep)
    /\ WF_vars(Deliver)
    /\ WF_vars(AttemptStep)

----------------------------------------------------------------------------
\* Vocabulary of the properties.

Handling == {r \in Requests : rstate[r] = "handling"}

HandshakePcs == {"ss_dir_out", "ss_low", "ss_high", "ss_dir_in",
                 "ss_wait_low", "ss_wait_high"}
HandshakeWaitPcs == {"ss_wait_low", "ss_wait_high"}
DataWaitPcs == {"rd_wait_rise", "rd_wait_fall"}
ReceivingPcs == {"rd_enter", "rd_loop", "rd_wait_rise", "rd_sample",
                 "rd_wait_fall", "rd_return"}
\* Positions at which the five bytes are in buf and the status is set.
CheckedPcs == {"gd_assign", "gh_print", "gh_render", "gh_send", "gh_return"}
\* Positions at which getData has returned.
DecodedPcs == {"gh_print", "gh_render", "gh_send", "gh_return"}
\* Positions at which the page has been rendered.
RenderedPcs == {"gh_send", "gh_return"}
\* Positions at which the host reads the line.
ReadingPcs == HandshakeWaitPcs \cup {"rd_wait_rise", "rd_sample", "rd_wait_fall"}

\* get_handler has returned and no other call has started since.
Returned == pc = "idle" /\ ret # "none"

\* The sensor gave no acknowledgment pulse: the line stays high, or stays low.
NeverAcknowledges == Len(wave) < 2

\* The sensor acknowledged but stopped before the end of the forty bits.
StalledInData ==
    /\ Len(wave) >= 2
    /\ Len(wave) < FallEdgeOfBit(BitsPerByte * BytesPerFrame)

\* Number of edges of a complete answer: two of the acknowledgment, two per
\* bit, two of the closing low pulse.
FullWaveLen == 2 * (BitsPerByte * BytesPerFrame) + 4

\* The sensor sends a complete frame.
FullFrame == Len(wave) = FullWaveLen

\* The reading getData derives from five bytes.
ReadingOf(b) == [temperature |-> b[3], humidity |-> b[1],
                 status |-> IF b[5] = b[1] + b[2] + b[3] + b[4] THEN 0 ELSE 1]

LogOps == [n \in 1..Len(hostLog) |-> hostLog[n][1]]
LogTime(n) == hostLog[n][2]
HandshakeOps == <<"dir_out", "set_0", "set_1", "dir_in">>

----------------------------------------------------------------------------
\* C1: for every five bytes received, getData sets status 0 exactly when
\* byte 5 equals the sum of bytes 1..4 modulo 256, and status 1 otherwise,
\* also when the four data bytes sum to 256 or more.
C1_ChecksumMod256 ==
    pc \in CheckedPcs =>
        /\ currentData.status \in {0, 1}
        /\ (currentData.status = 0) <=>
               (buf[5] = (buf[1] + buf[2] + buf[3] + buf[4]) % ByteMod)

\* C2: when the sensor never acknowledges (line stays high, or stays low),
\* no wait loop of the handshake spins forever: wherever startSignal waits,
\* the handler can still take a step, so the handshake ends.
C2_HandshakeTerminates ==
    (pc \in HandshakeWaitPcs /\ NeverAcknowledges) =>
        ENABLED HandlerStep(Behaviours)

\* C3: when the sensor stalls during the forty data bits, the transaction
\* still ends (the handler can always take a step out of a data wait), and
\* no page is rendered from the partial bytes.
C3_StallTimesOut ==
    StalledInData =>
        /\ pc \in DataWaitPcs => ENABLED HandlerStep(Behaviours)
        /\ pc \in RenderedPcs => ~htmlPage.filled

\* C4: a readData call entered when the line starts the eight pulses of a
\* byte v of the frame (50 us low, then 26 us high for 0 or 70 us high for
\* 1, most-significant bit first) returns exactly v.
C4_ReadDataRoundTrip ==
    pc = "rd_return" =>
        \A j \in 1..BytesPerFrame :
            (/\ Len(wave) >= ByteStartEdge(j + 1)
             /\ rdEntry = wave[ByteStartEdge(j)]) => sbuf = sbytes[j]

C4_Witness ==
    /\ pc = "rd_return"
    /\ k = 3
    /\ Len(wave) >= ByteStartEdge(4)
    /\ rdEntry = wave[ByteStartEdge(3)]
    /\ sbytes[3] = 165
    /\ sbuf = 165

C6_HandshakeOrder ==
    /\ Len(hostLog) <= Len(HandshakeOps)
    /\ LogOps = SubSeq(HandshakeOps, 1, Len(hostLog))
    /\ Len(hostLog) >= 3 => LogTime(3) - LogTime(2) >= MinStartLowUs
    /\ Len(hostLog) >= 4 =>
           /\ LogTime(4) - LogTime(3) > 0
           /\ LogTime(4) - LogTime(3) <= MaxLatencyUs
    /\ pc \in ReadingPcs => (dir = "INPUT" /\ Len(hostLog) = Len(HandshakeOps))
    /\ (pc \in HandshakePcs /\ Len(hostLog) \in 1..3) => dir = "OUTPUT"

C6_Witness ==
    /\ pc = "ss_wait_low"
    /\ LogOps = HandshakeOps
    /\ LogTime(3) - LogTime(2) = LowHoldUs
    /\ dir = "INPUT"

\* C7: every transaction goes Idle -> Handshaking -> Receiving(0..4) ->
\* Assembled -> Idle: bytes are read only after the handshake, five of them
\* in order before the reading is assembled, and a transaction that is not
\* Idle can always go on (a wait that sees no edge times out to Idle).
C7_TransactionStateMachine ==
    /\ pc \in ReceivingPcs =>
           (k \in 1..BytesPerFrame /\ Len(hostLog) = Len(HandshakeOps))
    /\ pc \in CheckedPcs \cup {"gd_check"} => k = BytesPerFrame + 1
    /\ pc # "idle" => ENABLED HandlerStep(Behaviours)

\* C8: a page rendered for an invalid reading carries a sensor-error
\* indication; the numbers appear without one only for a valid reading.
C8_ErrorShownToClient ==
    (pc \in RenderedPcs /\ htmlPage.filled /\ currentData.status # 0) =>
        htmlPage.errorText

\* C9: a checksum mismatch is no hard failure: getData goes on to its end
\* for any five bytes, leaves status 0 or 1 and temperature and humidity
\* filled from the bytes; on status 1 the page still carries the two
\* numbers, the error is printed, and the handler returns ESP_OK after one
\* response.
C9_MismatchIsSoft ==
    /\ pc \in {"gd_check", "gd_assign"} => ENABLED HandlerStep(Behaviours)
    /\ pc \in DecodedPcs =>
           /\ currentData.status \in {0, 1}
           /\ currentData.temperature = buf[3]
           /\ currentData.humidity = buf[1]
    /\ ((pc \in RenderedPcs \/ Returned) /\ currentData.status = 1) =>
           /\ htmlPage = Render(buf[3], buf[1])
           /\ console = "error"
    /\ (Returned /\ currentData.status = 1) =>
           /\ ret = "ESP_OK"
           /\ \E r \in Requests : rstate[r] = "responded" /\ respCount[r] = 1

C9_Witness ==
    /\ Returned
    /\ buf = <<50, 0, 21, 0, 72>>
    /\ currentData = [temperature |-> 21, humidity |-> 50, status |-> 1]
    /\ htmlPage.filled
    /\ htmlPage.temperature = 21
    /\ htmlPage.humidity = 50
    /\ ret = "ESP_OK"

\* C10: when a transaction has completed, with either status, and until the
\* next one starts, the pin is in input mode.
C10_PinIdleInput ==
    (pc = "gh_return" \/ Returned) => dir = "INPUT"

C10_Witness ==
    /\ Returned
    /\ currentData.status = 1
    /\ dir = "INPUT"
    /\ \E r \in Requests : rstate[r] = "pending"

\* C11: a request is served by one startSignal call, then one getData call,
\* then one response, never more; a request not yet dispatched has none of
\* them, a request answered has exactly one of each, and the handler is at
\* work only for a request being handled (no polling without a request).
C11_OneTransactionPerRequest ==
    /\ \A r \in Requests :
        /\ startCount[r] <= 1
        /\ getCount[r] <= startCount[r]
        /\ respCount[r] <= getCount[r]
        /\ rstate[r] \in {"none", "pending"} => startCount[r] = 0
        /\ rstate[r] = "responded" =>
               (startCount[r] = 1 /\ getCount[r] = 1 /\ respCount[r] = 1)
    /\ pc # "idle" => Handling # {}

C11_Witness ==
    /\ \A r \in Requests :
        /\ rstate[r] = "responded"
        /\ startCount[r] = 1
        /\ getCount[r] = 1
        /\ respCount[r] = 1
    /\ console = "error"

\* The pin became an input no earlier than the sensor began its
\* acknowledgment, so that startSignal saw the acknowledgment low.
AckLowSeen == FullFrame /\ Len(hostLog) = Len(HandshakeOps) /\ wave[1] <= LogTime(4)

\* C12: the reported humidity is byte 1 and the temperature byte 3 of the
\* five bytes; bytes 2 and 4 are read from the wire like the others and do
\* not change the two numbers, but they are part of the sum compared with
\* byte 5 to set the status.
C12_FieldsAndFractions ==
    pc \in DecodedPcs =>
        /\ currentData.humidity = buf[1]
        /\ currentData.temperature = buf[3]
        /\ (currentData.status = 0) <=> (buf[5] = buf[1] + buf[2] + buf[3] + buf[4])
        /\ AckLowSeen => buf = sbytes

C12_Witness ==
    /\ pc = "gh_print"
    /\ sbytes = <<50, 3, 21, 7, 81>>
    /\ buf = sbytes
    /\ currentData = [temperature |-> 21, humidity |-> 50, status |-> 0]

\* C13: whatever the struct held before and whatever earlier requests read,
\* the reading rendered and the page are those of the five bytes read in
\* the request's own transaction: all five bytes and all three fields were
\* written in it.
C13_NoCarryOver ==
    (pc \in RenderedPcs \/ Returned) =>
        /\ k = BytesPerFrame + 1
        /\ currentData = ReadingOf(buf)
        /\ htmlPage = Render(buf[3], buf[1])
        /\ console = (IF ReadingOf(buf).status = 0 THEN "values" ELSE "error")

C13_Witness ==
    /\ \E r, q \in Requests : rstate[q] = "responded" /\ rstate[r] = "handling"
    /\ pc = "gh_send"
    /\ sbytes = ZeroBuf
    /\ buf = ZeroBuf
    /\ currentData = [temperature |-> 0, humidity |-> 0, status |-> 0]
    /\ htmlPage = Render(0, 0)

\* C14: when the sensor answers a complete frame 20 to 40 us after the host
\* released the line, startSignal returns only once the acknowledgment low
\* and the acknowledgment high are over, and the first sample of the first
\* readData call is taken 30 us into the high pulse of the frame's first bit
\* and yields that bit.
C14_AckWaitedOut ==
    (/\ FullFrame
     /\ Len(hostLog) = Len(HandshakeOps)
     /\ wave[1] - LogTime(3) \in MinLatencyUs..MaxLatencyUs) =>
        /\ pc \in {"gh_decl", "gd_init"} \cup ReceivingPcs => now >= wave[ByteStartEdge(1)]
        /\ (pc = "rd_wait_fall" /\ k = 1 /\ i = 0) =>
               /\ now = wave[RiseEdgeOfBit(1)] + SampleDelayUs
               /\ sbuf = FrameBit(sbytes, 1)

\* The main task has left wifi_init_sta.
InitReturned == mainPc \in {"start_webserver", "done"}

\* The main task has not yet come back from xEventGroupWaitBits.
BeforeWaitReturn ==
    mainPc \in {"create_group", "register_any", "register_ip", "wifi_start", "wait"}

\* event_handler has run for the last event taken, and the event was ev.
LastHandled(ev) == last.handled /\ last.event = ev

\* C15: s_retry_num stays within 0..20; a STA_DISCONNECTED event handled
\* with the counter below 20 makes one esp_wifi_connect call, adds one to
\* the counter and sets no bit; handled with the counter at 20 it makes no
\* call, leaves the counter and sets WIFI_FAIL_BIT only; WIFI_FAIL_BIT is
\* set only when 20 reconnect attempts were made since the last GOT_IP
\* handled (or since the start); a GOT_IP event handled leaves the counter
\* at 0 and WIFI_CONNECTED_BIT set.
C15_RetryCounter ==
    /\ s_retry_num \in 0..EXAMPLE_ESP_MAXIMUM_RETRY
    /\ LastHandled("STA_DISCONNECTED") =>
        \/ /\ last.retryBefore < EXAMPLE_ESP_MAXIMUM_RETRY
           /\ last.connects = 1
           /\ s_retry_num = last.retryBefore + 1
           /\ last.set = {}
        \/ /\ last.retryBefore = EXAMPLE_ESP_MAXIMUM_RETRY
           /\ last.connects = 0
           /\ s_retry_num = last.retryBefore
           /\ last.set = {WIFI_FAIL_BIT}
    /\ (last.handled /\ WIFI_FAIL_BIT \in last.set) =>
           reconSince = EXAMPLE_ESP_MAXIMUM_RETRY
    /\ LastHandled("GOT_IP") =>
        /\ s_retry_num = 0
        /\ last.connects = 0
        /\ last.set = {WIFI_CONNECTED_BIT}
        /\ WIFI_CONNECTED_BIT \in bits

\* The station was connected once, lost the connection and failed twenty
\* reconnects: the twenty-first disconnect sets WIFI_FAIL_BIT.
C15_Witness ==
    /\ LastHandled("STA_DISCONNECTED")
    /\ last.set = {WIFI_FAIL_BIT}
    /\ last.retryBefore = EXAMPLE_ESP_MAXIMUM_RETRY
    /\ bits = {WIFI_CONNECTED_BIT, WIFI_FAIL_BIT}
    /\ reconSince = EXAMPLE_ESP_MAXIMUM_RETRY
    /\ discSince = EXAMPLE_ESP_MAXIMUM_RETRY + 1

\* What holds at every moment of the start-up (the safety part of C16).
C16_Safety ==
    /\ ~BeforeWaitReturn => waitBits \cap {WIFI_CONNECTED_BIT, WIFI_FAIL_BIT} # {}
    /\ (mainPc = "wait" /\ bits \cap {WIFI_CONNECTED_BIT, WIFI_FAIL_BIT} # {})
           => ENABLED M_Wait
    /\ bits \cap {WIFI_CONNECTED_BIT, WIFI_FAIL_BIT} = {}
           => discSince <= EXAMPLE_ESP_MAXIMUM_RETRY
    /\ serverUp =>
        /\ mainPc = "done"
        /\ group = "deleted"
        /\ outcome \in {"connected", "failed"}

\* C16: when the tasks are scheduled and every connection attempt comes to
\* a result, wifi_init_sta returns and the web server is started.  The wait
\* returns only with WIFI_CONNECTED_BIT or WIFI_FAIL_BIT, and can return as
\* soon as one of them is set; no bit set means at most 20 disconnects were
\* handled in a row, so the 21st sets one; the web server is started only
\* after wifi_init_sta has returned, logged as connected or as failed.
C16_InitReturns == [](C16_Safety) /\ <>(mainPc = "done" /\ serverUp)

\* The failed outcome: 21 disconnects in a row, then the server is started.
C16_Witness ==
    /\ serverUp
    /\ mainPc = "done"
    /\ outcome = "failed"
    /\ waitBits = {WIFI_FAIL_BIT}
    /\ discSince = EXAMPLE_ESP_MAXIMUM_RETRY + 1

\* C17: both handler instances are unregistered when the event group is
\* deleted; event_handler runs, and calls xEventGroupSetBits, only while the
\* group is live; a STA_DISCONNECTED event taken after wifi_init_sta has
\* returned is not handled: no esp_wifi_connect call, s_retry_num as before,
\* the driver stays idle.
C17_NoUseAfterDelete ==
    /\ group = "deleted" => (~regAny /\ ~regIp)
    /\ last.handled => last.group = "live"
    /\ last.set # {} => last.group = "live"
    /\ (last.event = "STA_DISCONNECTED" /\ last.at \in {"start_webserver", "done"}) =>
        /\ ~last.handled
        /\ last.connects = 0
        /\ s_retry_num = last.retryBefore
        /\ link = "idle"

\* The connection is lost while the web server runs; the event is dropped.
C17_Witness ==
    /\ serverUp
    /\ outcome = "connected"
    /\ last.event = "STA_DISCONNECTED"
    /\ last.at = "done"
    /\ last.group = "deleted"
    /\ ~last.handled
    /\ s_retry_num = 0

====
